---- MODULE Spec2Model ----
(***************************************************************************)
(* Model of the transform kernel of the pathtracing crate:                 *)
(*   src/src/lib.rs            Float = f32, the Number trait               *)
(*   src/src/core/vector3.rs   Vector3 and the Vector3f operations         *)
(*   src/src/core/transform.rs Transform: evaluation, composition,         *)
(*                             inversion and the named constructors        *)
(* The Matrix4x4 type (core/matrix4x4.rs) is used by transform.rs but is   *)
(* not among the source files; its operations are modelled from the        *)
(* specification text (section 4.2).                                       *)
(*                                                                         *)
(* Numbers.  A Float is a pair <<n, d>>:                                   *)
(*   d > 0   the finite value n/d, in lowest terms                         *)
(*   <<0,0>> NaN,  <<1,0>> +infinity,  <<-1,0>> -infinity                  *)
(* Finite arithmetic is exact (the rounding of f32 is not modelled, and    *)
(* neither is overflow: the inputs are small); the IEEE rules for NaN,     *)
(* infinities and division by zero are modelled.  Zero is unsigned.        *)
(* Matrix indices are 1..4 here and 0..3 in the source.                    *)
(***************************************************************************)
EXTENDS Integers, Sequences, FiniteSets, TLC

VARIABLES cur, lhs, rhs, how, depth, op, args, out

vars == <<cur, lhs, rhs, how, depth, op, args, out>>

(***************************************************************************)
(* Float (f32) arithmetic                                                  *)
(***************************************************************************)
Abs(n) == IF n < 0 THEN -n ELSE n

Sgn(n) == IF n < 0 THEN -1 ELSE IF n > 0 THEN 1 ELSE 0

RECURSIVE Gcd(_, _)
Gcd(a, b) == IF b = 0 THEN a ELSE Gcd(b, a % b)

\* The Float n/d in lowest terms with a positive denominator; d = 0 gives
\* NaN (n = 0) or an infinity with the sign of n.
Rat(n, d) ==
    IF d = 0 THEN <<Sgn(n), 0>>
    ELSE LET g == Gcd(Abs(n), Abs(d))
             s == IF d < 0 THEN -1 ELSE 1
         IN  <<(s * n) \div g, (s * d) \div g>>

F(n) == <<n, 1>>

NaN == <<0, 0>>

PosInf == <<1, 0>>

NegInf == <<-1, 0>>

IsNaN(a) == a = NaN

IsInf(a) == a[2] = 0 /\ a[1] # 0

IsFinite(a) == a[2] > 0

IsZero(a) == a[2] > 0 /\ a[1] = 0

FNeg(a) == <<-a[1], a[2]>>

\* a + b: NaN is absorbing, inf + (-inf) = NaN.
FAdd(a, b) ==
    IF IsNaN(a) \/ IsNaN(b) THEN NaN
    ELSE IF IsInf(a) THEN (IF IsInf(b) /\ b # a THEN NaN ELSE a)
    ELSE IF IsInf(b) THEN b
    ELSE Rat(a[1] * b[2] + b[1] * a[2], a[2] * b[2])

FSub(a, b) == FAdd(a, FNeg(b))

\* a * b: NaN is absorbing, 0 * inf = NaN.
FMul(a, b) ==
    IF IsNaN(a) \/ IsNaN(b) THEN NaN
    ELSE IF IsInf(a) \/ IsInf(b)
         THEN (IF IsZero(a) \/ IsZero(b) THEN NaN
               ELSE <<Sgn(a[1]) * Sgn(b[1]), 0>>)
    ELSE Rat(a[1] * b[1], a[2] * b[2])

\* a / b: 0/0 = NaN, inf/inf = NaN, x/0 = +-inf, x/inf = 0; never a panic.
FDiv(a, b) ==
    IF IsNaN(a) \/ IsNaN(b) THEN NaN
    ELSE IF IsInf(b) THEN (IF IsInf(a) THEN NaN ELSE F(0))
    ELSE IF IsInf(a) THEN <<Sgn(a[1]) * (IF b[1] < 0 THEN -1 ELSE 1), 0>>
    ELSE IF IsZero(b) THEN <<Sgn(a[1]), 0>>
    ELSE Rat(a[1] * b[2], a[2] * b[1])

IsSquare(n) == n >= 0 /\ \E r \in 0..n : r * r = n

ISqrt(n) == CHOOSE r \in 0..n : r * r = n

\* Whether sqrt(a) is a Float of the model (a rational, or a special value).
ExactSqrt(a) ==
    \/ ~IsFinite(a)
    \/ a[1] < 0
    \/ IsSquare(a[1]) /\ IsSquare(a[2])

\* f32::sqrt: NaN for NaN and for negative values, +inf for +inf.
FSqrt(a) ==
    IF IsNaN(a) \/ a[1] < 0 THEN NaN
    ELSE IF IsInf(a) THEN PosInf
    ELSE <<ISqrt(a[1]), ISqrt(a[2])>>

\* f32::to_radians followed by cos and sin, on the angles whose cosine and
\* sine are rational (the multiples of 90 degrees); the f32 results differ
\* from these values by rounding only (less than 1e-7).
Quadrant(theta) == (theta % 360) \div 90

cos_deg(theta) == F(<<1, 0, -1, 0>>[Quadrant(theta) + 1])

sin_deg(theta) == F(<<0, 1, 0, -1>>[Quadrant(theta) + 1])

(***************************************************************************)
(* Vector3f: <<x, y, z>>                                                   *)
(***************************************************************************)
Vector3_new(initial) == <<initial, initial, initial>>

Vector3_new_xyz(x, y, z) == <<x, y, z>>

sub(self, o) ==
    Vector3_new_xyz(FSub(self[1], o[1]), FSub(self[2], o[2]), FSub(self[3], o[3]))

add(self, o) ==
    Vector3_new_xyz(FAdd(self[1], o[1]), FAdd(self[2], o[2]), FAdd(self[3], o[3]))

div_assign(self, o) == <<FDiv(self[1], o), FDiv(self[2], o), FDiv(self[3], o)>>

len_squared(self) ==
    FAdd(FAdd(FMul(self[1], self[1]), FMul(self[2], self[2])), FMul(self[3], self[3]))

len(self) == FSqrt(len_squared(self))

dot(self, o) ==
    FAdd(FAdd(FMul(self[1], o[1]), FMul(self[2], o[2])), FMul(self[3], o[3]))

\* norm_in: the zero-length branch resets the vector and then falls through
\* to the division by len (there is no return in the branch).
norm_in(self) ==
    LET l == len(self)
        s == IF l = F(0) THEN Vector3_new(F(0)) ELSE self
    IN  div_assign(s, l)

norm(self) == norm_in(self)

\* cross with the sign of the last product of the z component flipped.
cross_sign_slip(self, o) ==
    Vector3_new_xyz(
        FSub(FMul(self[2], o[3]), FMul(self[3], o[2])),
        FSub(FMul(self[3], o[1]), FMul(self[1], o[3])),
        FAdd(FMul(self[1], o[2]), FMul(self[2], o[1])))

cross(self, o) ==
    Vector3_new_xyz(
        FSub(FMul(self[2], o[3]), FMul(self[3], o[2])),
        FSub(FMul(self[3], o[1]), FMul(self[1], o[3])),
        FSub(FMul(self[1], o[2]), FMul(self[2], o[1])))

(***************************************************************************)
(* Matrix4x4f: <<row1, row2, row3, row4>>, each row four Floats            *)
(***************************************************************************)
Matrix4x4_new(m00, m01, m02, m03, m10, m11, m12, m13, m20, m21, m22, m23, m30, m31, m32, m33) ==
    << <<m00, m01, m02, m03>>, <<m10, m11, m12, m13>>,
       <<m20, m21, m22, m23>>, <<m30, m31, m32, m33>> >>

Matrix4x4_new_ident(diag) ==
    [i \in 1..4 |-> [j \in 1..4 |-> IF i = j THEN diag ELSE F(0)]]

\* result[i][j] = sum over k of a[i][k] * b[k][j], summed left to right.
Matrix4x4_mul(a, b) ==
    [i \in 1..4 |-> [j \in 1..4 |->
        FAdd(FAdd(FAdd(FMul(a[i][1], b[1][j]), FMul(a[i][2], b[2][j])),
                  FMul(a[i][3], b[3][j])),
             FMul(a[i][4], b[4][j]))]]

Skip(k, i) == IF k < i THEN k ELSE k + 1

Det3(a) ==
    FAdd(FSub(FMul(a[1][1], FSub(FMul(a[2][2], a[3][3]), FMul(a[2][3], a[3][2]))),
              FMul(a[1][2], FSub(FMul(a[2][1], a[3][3]), FMul(a[2][3], a[3][1])))),
         FMul(a[1][3], FSub(FMul(a[2][1], a[3][2]), FMul(a[2][2], a[3][1]))))

\* The cofactor of entry (i, j): the signed determinant of the 3x3 minor.
Cofactor(m, i, j) ==
    LET minor == [r \in 1..3 |-> [c \in 1..3 |-> m[Skip(r, i)][Skip(c, j)]]]
        d == Det3(minor)
    IN  IF (i + j) % 2 = 0 THEN d ELSE FNeg(d)

Det4(m) ==
    FAdd(FAdd(FAdd(FMul(m[1][1], Cofactor(m, 1, 1)), FMul(m[1][2], Cofactor(m, 1, 2))),
              FMul(m[1][3], Cofactor(m, 1, 3))),
         FMul(m[1][4], Cofactor(m, 1, 4)))

\* inverse() by cofactor expansion: the transposed cofactors over the determinant.
Matrix4x4_inverse(m) ==
    LET det == Det4(m)
    IN  [i \in 1..4 |-> [j \in 1..4 |-> FDiv(Cofactor(m, j, i), det)]]

\* The matrices inverse() is specified for: finite entries, determinant not 0.
Invertible(m) ==
    /\ \A i \in 1..4 : \A j \in 1..4 : IsFinite(m[i][j])
    /\ ~IsZero(Det4(m))

(***************************************************************************)
(* Transform: the struct has the one field m, so a Transform is its matrix *)
(***************************************************************************)
Transform_new == Matrix4x4_new_ident(F(1))

eval_point(self, p) ==
    LET m == self
        x == FAdd(FAdd(FAdd(FMul(m[1][1], p[1]), FMul(m[1][2], p[2])), FMul(m[1][3], p[3])), m[1][4])
        y == FAdd(FAdd(FAdd(FMul(m[2][1], p[1]), FMul(m[2][2], p[2])), FMul(m[2][3], p[3])), m[2][4])
        z == FAdd(FAdd(FAdd(FMul(m[3][1], p[1]), FMul(m[3][2], p[2])), FMul(m[3][3], p[3])), m[3][4])
        w == FAdd(FAdd(FAdd(FMul(m[4][1], p[1]), FMul(m[4][2], p[2])), FMul(m[4][3], p[3])), m[4][4])
        o == Vector3_new_xyz(x, y, z)
    IN  IF w # F(1) THEN div_assign(o, w) ELSE o

\* The w that eval_point computes, and whether it takes the divide branch.
eval_point_w(self, p) ==
    LET m == self
    IN  FAdd(FAdd(FAdd(FMul(m[4][1], p[1]), FMul(m[4][2], p[2])), FMul(m[4][3], p[3])), m[4][4])

\* eval_vector adding the translation column, as eval_point does.
eval_vector_translating(self, v) ==
    LET m == self
        x == FAdd(FAdd(FAdd(FMul(m[1][1], v[1]), FMul(m[1][2], v[2])), FMul(m[1][3], v[3])), m[1][4])
        y == FAdd(FAdd(FAdd(FMul(m[2][1], v[1]), FMul(m[2][2], v[2])), FMul(m[2][3], v[3])), m[2][4])
        z == FAdd(FAdd(FAdd(FMul(m[3][1], v[1]), FMul(m[3][2], v[2])), FMul(m[3][3], v[3])), m[3][4])
    IN  Vector3_new_xyz(x, y, z)

eval_vector(self, v) ==
    LET m == self
        x == FAdd(FAdd(FMul(m[1][1], v[1]), FMul(m[1][2], v[2])), FMul(m[1][3], v[3]))
        y == FAdd(FAdd(FMul(m[2][1], v[1]), FMul(m[2][2], v[2])), FMul(m[2][3], v[3]))
        z == FAdd(FAdd(FMul(m[3][1], v[1]), FMul(m[3][2], v[2])), FMul(m[3][3], v[3]))
    IN  Vector3_new_xyz(x, y, z)

\* inverse returning a copy of the matrix, not inverted.
inverse_copy(self) == self

inverse(self) == Matrix4x4_inverse(self)

\* Mul with the operands of the matrix product exchanged.
mul_swapped(self, o) == Matrix4x4_mul(o, self)

\* impl ops::Mul for Transform: &self.m * &op.m
mul(self, o) == Matrix4x4_mul(self, o)

\* new_translate with the offsets in the bottom row (the matrix transposed).
new_translate_transposed(x, y, z) ==
    Matrix4x4_new(F(1), F(0), F(0), F(0),
                  F(0), F(1), F(0), F(0),
                  F(0), F(0), F(1), F(0),
                  x, y, z, F(1))

new_translate(x, y, z) ==
    Matrix4x4_new(F(1), F(0), F(0), x,
                  F(0), F(1), F(0), y,
                  F(0), F(0), F(1), z,
                  F(0), F(0), F(0), F(1))

new_scale(x, y, z) ==
    Matrix4x4_new(x, F(0), F(0), F(0),
                  F(0), y, F(0), F(0),
                  F(0), F(0), z, F(0),
                  F(0), F(0), F(0), F(1))

new_rotate_x(theta) ==
    LET cost == cos_deg(theta)
        sint == sin_deg(theta)
    IN  Matrix4x4_new(F(1), F(0), F(0), F(0),
                      F(0), cost, FNeg(sint), F(0),
                      F(0), sint, cost, F(0),
                      F(0), F(0), F(0), F(1))

new_rotate_y(theta) ==
    LET cost == cos_deg(theta)
        sint == sin_deg(theta)
    IN  Matrix4x4_new(cost, F(0), sint, F(0),
                      F(0), F(1), F(0), F(0),
                      FNeg(sint), F(0), cost, F(0),
                      F(0), F(0), F(0), F(1))

\* The source writes 1.1 at row 2, column 2 (0-based); 11/10 stands for
\* the f32 nearest to it.
new_rotate_z(theta) ==
    LET cost == cos_deg(theta)
        sint == sin_deg(theta)
    IN  Matrix4x4_new(cost, FNeg(sint), F(0), F(0),
                      sint, cost, F(0), F(0),
                      F(0), F(0), Rat(11, 10), F(0),
                      F(0), F(0), F(0), F(1))

\* new_look_at without the normalisation of right.
new_look_at_unnormalised(pos, look, up) ==
    LET dir == norm(sub(look, pos))
        right == cross(norm(up), dir)
        newup == cross(dir, right)
    IN  Matrix4x4_new(right[1], newup[1], dir[1], pos[1],
                      right[2], newup[2], dir[2], pos[2],
                      right[3], newup[3], dir[3], pos[3],
                      F(0), F(0), F(0), F(1))

new_look_at(pos, look, up) ==
    LET dir == norm(sub(look, pos))
        right == norm(cross(norm(up), dir))
        newup == cross(dir, right)
    IN  Matrix4x4_new(right[1], newup[1], dir[1], pos[1],
                      right[2], newup[2], dir[2], pos[2],
                      right[3], newup[3], dir[3], pos[3],
                      F(0), F(0), F(0), F(1))

\* Whether every square root new_look_at takes is a Float of the model.
look_at_exact(pos, look, up) ==
    /\ ExactSqrt(len_squared(sub(look, pos)))
    /\ ExactSqrt(len_squared(up))
    /\ ExactSqrt(len_squared(cross(norm(up), norm(sub(look, pos)))))

(***************************************************************************)
(* Inputs of the operations                                                *)
(***************************************************************************)
MaxDepth == 2

MaxCoord == 1

V3(x, y, z) == Vector3_new_xyz(F(x), F(y), F(z))

Zero3 == Vector3_new(F(0))

Coord == (-MaxCoord)..MaxCoord

\* Every vector with coordinates in Coord, and the vector (3,5,6), (1,1,1)
\* of the module's documentation example.
CoordVecs == {V3(x, y, z) : x \in Coord, y \in Coord, z \in Coord} \cup {V3(3, 5, 6)}

Angles == {0, 90, 180, 270, -90}

\* Vectors whose length is rational, for norm and new_look_at.
NormVecs ==
    {v \in CoordVecs : ExactSqrt(len_squared(v))}
        \cup {V3(3, 4, 0), V3(0, -3, 4), V3(1, 2, 2), V3(0, 0, 2)}

Positions == {V3(0, 0, 0), V3(1, 2, 3)}

\* The operands of the composition machine.
Offsets == {V3(3, 5, 6)}

\* A scale, and a singular one (no inverse).
Scales == {V3(2, 3, 4), V3(0, 1, 1)}

Turns == {90, 180}

\* <<pos, look, up>>: a frame with rational entries, and one with look = pos.
LookAts ==
    { <<V3(0, 0, 0), V3(3, 4, 0), V3(0, 0, 1)>>,
      <<V3(1, 2, 3), V3(1, 2, 3), V3(0, 0, 1)>> }

Points == {V3(1, 1, 1), V3(1, 0, 0), V3(-2, 3, 0)}

\* The Transforms the named constructors build from these inputs.
Operands ==
    {Transform_new}
        \cup {new_translate(t[1], t[2], t[3]) : t \in Offsets}
        \cup {new_scale(t[1], t[2], t[3]) : t \in Scales}
        \cup {new_rotate_x(a) : a \in Turns}
        \cup {new_rotate_y(a) : a \in Turns}
        \cup {new_rotate_z(a) : a \in Turns}
        \cup {new_look_at(l[1], l[2], l[3]) : l \in LookAts}

(***************************************************************************)
(* State: cur is the Transform in hand; how it was produced ("ctor",       *)
(* "mul", "inverse") with the operands lhs, rhs of that step; depth counts *)
(* the compositions and inversions behind cur; op, args and out are the    *)
(* last operation, its arguments and its Vector3f result.                  *)
(* Every operation is a pure function, so a behaviour is one use of the    *)
(* kernel: build a Transform (or apply one vector operation), compose and  *)
(* invert it, evaluate it, and possibly invert it and evaluate again.      *)
(***************************************************************************)
Init ==
    /\ cur = Transform_new
    /\ lhs = Transform_new
    /\ rhs = Transform_new
    /\ how = "ctor"
    /\ depth = 0
    /\ op = "start"
    /\ args = <<>>
    /\ out = Zero3

\* Nothing was called yet.
AtStart == op = "start"

\* cur is a Transform some operation returned.
InHand == op \notin {"start", "norm", "cross"}

\* The last operation was an evaluation of cur.
Evaluated == op \in {"eval_point", "eval_vector"}

\* A constructor returns a fresh Transform.
Built(t, name, a) ==
    /\ cur' = t
    /\ lhs' = Transform_new
    /\ rhs' = Transform_new
    /\ how' = "ctor"
    /\ depth' = 0
    /\ op' = name
    /\ args' = a
    /\ out' = Zero3

New == AtStart /\ Built(Transform_new, "new", <<>>)

NewTranslate(S) ==
    /\ AtStart
    /\ \E t \in S : Built(new_translate(t[1], t[2], t[3]), "new_translate", <<t>>)

NewScale(S) ==
    /\ AtStart
    /\ \E t \in S : Built(new_scale(t[1], t[2], t[3]), "new_scale", <<t>>)

NewRotateX(S) ==
    /\ AtStart
    /\ \E a \in S : Built(new_rotate_x(a), "new_rotate_x", <<a>>)

NewRotateY(S) ==
    /\ AtStart
    /\ \E a \in S : Built(new_rotate_y(a), "new_rotate_y", <<a>>)

NewRotateZ(S) ==
    /\ AtStart
    /\ \E a \in S : Built(new_rotate_z(a), "new_rotate_z", <<a>>)

NewLookAt(S) ==
    /\ AtStart
    /\ \E l \in S :
        /\ look_at_exact(l[1], l[2], l[3])
        /\ Built(new_look_at(l[1], l[2], l[3]), "new_look_at", l)

\* Transform * Transform, with cur as the left or as the right operand.
Mul ==
    /\ InHand /\ ~Evaluated
    /\ depth < MaxDepth
    /\ \E c \in Operands :
        \/ /\ cur' = mul(cur, c)
           /\ lhs' = cur
           /\ rhs' = c
        \/ /\ cur' = mul(c, cur)
           /\ lhs' = c
           /\ rhs' = cur
    /\ how' = "mul"
    /\ depth' = depth + 1
    /\ op' = "mul"
    /\ args' = <<>>
    /\ out' = Zero3

\* cur.inverse(); the last evaluation's argument and result stay in hand.
Inverse ==
    /\ InHand
    /\ depth < MaxDepth
    /\ Invertible(cur)
    /\ cur' = inverse(cur)
    /\ lhs' = cur
    /\ rhs' = Transform_new
    /\ how' = "inverse"
    /\ depth' = depth + 1
    /\ op' = "inverse"
    /\ UNCHANGED <<args, out>>

\* The arguments of an evaluation: a given point, or, right after an
\* inversion, the result of the evaluation before it.
EvalArgs(S) == S \cup (IF op = "inverse" THEN {out} ELSE {})

EvalPoint(S) ==
    /\ InHand /\ ~Evaluated
    /\ \E p \in EvalArgs(S) :
        /\ out' = eval_point(cur, p)
        /\ args' = <<p>>
        /\ op' = "eval_point"
        /\ UNCHANGED <<cur, lhs, rhs, how, depth>>

EvalVector(S) ==
    /\ InHand /\ ~Evaluated
    /\ \E v \in EvalArgs(S) :
        /\ out' = eval_vector(cur, v)
        /\ args' = <<v>>
        /\ op' = "eval_vector"
        /\ UNCHANGED <<cur, lhs, rhs, how, depth>>

Norm ==
    /\ AtStart
    /\ \E v \in NormVecs :
        /\ out' = norm(v)
        /\ args' = <<v>>
        /\ op' = "norm"
        /\ UNCHANGED <<cur, lhs, rhs, how, depth>>

Cross ==
    /\ AtStart
    /\ \E a \in CoordVecs : \E b \in CoordVecs :
        /\ out' = cross(a, b)
        /\ args' = <<a, b>>
        /\ op' = "cross"
        /\ UNCHANGED <<cur, lhs, rhs, how, depth>>

\* The composition machine: constructors, composition, inversion, evaluation.
Next ==
    \/ New
    \/ NewTranslate(Offsets)
    \/ NewScale(Scales)
    \/ NewRotateX(Turns)
    \/ NewRotateY(Turns)
    \/ NewRotateZ(Turns)
    \/ NewLookAt(LookAts)
    \/ Mul
    \/ Inverse
    \/ EvalPoint(Points)
    \/ EvalVector(Points)

Spec == Init /\ [][Next]_vars

\* One constructor and one evaluation, over every input of CoordVecs and Angles.
NextCtor ==
    \/ New
    \/ NewTranslate(CoordVecs)
    \/ NewScale(CoordVecs)
    \/ NewRotateX(Angles)
    \/ NewRotateY(Angles)
    \/ NewRotateZ(Angles)
    \/ EvalPoint(CoordVecs)
    \/ EvalVector(CoordVecs)

SpecCtor == Init /\ [][NextCtor]_vars

\* The vector operations and the look-at frame.
NextVec ==
    \/ Norm
    \/ Cross
    \/ NewLookAt({<<p, add(p, d), u>> : p \in Positions, d \in NormVecs, u \in NormVecs})

SpecVec == Init /\ [][NextVec]_vars

(***************************************************************************)
(* Properties                                                              *)
(***************************************************************************)
VNeg(v) == <<FNeg(v[1]), FNeg(v[2]), FNeg(v[3])>>

FiniteVec(v) == IsFinite(v[1]) /\ IsFinite(v[2]) /\ IsFinite(v[3])

FiniteMatrix(m) == \A i \in 1..4 : \A j \in 1..4 : IsFinite(m[i][j])

Column(m, j) == <<m[1][j], m[2][j], m[3][j]>>

AffineRow == <<F(0), F(0), F(0), F(1)>>

\* m is the matrix new_translate builds from its own fourth column.
IsTranslate(m) == FiniteMatrix(m) /\ m = new_translate(m[1][4], m[2][4], m[3][4])

\* m with every entry outside the upper-left 3x3 block replaced by NaN.
BlockOnly(m) == [i \in 1..4 |-> [j \in 1..4 |-> IF i <= 3 /\ j <= 3 THEN m[i][j] ELSE NaN]]

\* C1: for every translation t and point p, new_translate(t).eval_point(p)
\* is exactly p + t, component by component.
TranslateEvalPoint ==
    \A t \in CoordVecs :
        (op = "eval_point" /\ cur = new_translate(t[1], t[2], t[3]))
            => out = add(args[1], t)

\* C1 witness: the documentation example, (3,5,6) applied to (1,1,1).
TranslateEvalPointWitness ==
    /\ op = "eval_point"
    /\ cur = new_translate(F(3), F(5), F(6))
    /\ args = <<V3(1, 1, 1)>>
    /\ out = V3(4, 6, 7)

\* C2: the product lhs * rhs applies rhs first: evaluating a point or a
\* vector through the product gives what evaluating through rhs and then
\* through lhs gives (the same Float in every component, NaN included).
ComposeAppliesRightFirst ==
    /\ (how = "mul" /\ op = "eval_point")
          => out = eval_point(lhs, eval_point(rhs, args[1]))
    /\ (how = "mul" /\ op = "eval_vector")
          => out = eval_vector(lhs, eval_vector(rhs, args[1]))

\* C2 witness: translate(3,5,6) * scale(2,3,4) maps (1,1,1) to (5,8,10).
ComposeWitness ==
    /\ how = "mul"
    /\ op = "eval_point"
    /\ lhs = new_translate(F(3), F(5), F(6))
    /\ rhs = new_scale(F(2), F(3), F(4))
    /\ args = <<V3(1, 1, 1)>>
    /\ out = V3(5, 8, 10)

\* C3: eval_vector reads only the upper-left 3x3 block (the result is the
\* same with every other entry replaced by NaN, so neither the translation
\* column nor the bottom row is used and nothing is divided by w); a
\* translation maps every vector to itself, and translation * T maps every
\* vector as T does.
EvalVectorUsesBlockOnly ==
    op = "eval_vector" =>
        /\ out = eval_vector(BlockOnly(cur), args[1])
        /\ IsTranslate(cur) => out = args[1]
        /\ (how = "mul" /\ IsTranslate(lhs)) => out = eval_vector(rhs, args[1])

\* C3 witness: translate(3,5,6) * scale(2,3,4) maps the vector (1,1,1) to (2,3,4).
EvalVectorWitness ==
    /\ op = "eval_vector"
    /\ how = "mul"
    /\ lhs = new_translate(F(3), F(5), F(6))
    /\ rhs = new_scale(F(2), F(3), F(4))
    /\ args = <<V3(1, 1, 1)>>
    /\ out = V3(2, 3, 4)

\* C4: when cur is the inverse of the invertible Transform lhs, evaluating
\* lhs's image of a point (a vector) q through cur gives q back.
InverseRoundTrip ==
    \A q \in Points :
        /\ (how = "inverse" /\ op = "eval_point" /\ args[1] = eval_point(lhs, q))
              => out = q
        /\ (how = "inverse" /\ op = "eval_vector" /\ args[1] = eval_vector(lhs, q))
              => out = q

\* C4 witness: (1,1,1) through translate(3,5,6) * rotate_z(90) and back.
InverseRoundTripWitness ==
    /\ how = "inverse"
    /\ op = "eval_point"
    /\ lhs = mul(new_translate(F(3), F(5), F(6)), new_rotate_z(90))
    /\ args = <<eval_point(lhs, V3(1, 1, 1))>>
    /\ args # <<V3(1, 1, 1)>>
    /\ out = V3(1, 1, 1)

\* C5: Transform::new() is neutral for composition on both sides and maps
\* every point and every vector to itself.
IdentityIsNeutral ==
    /\ (how = "mul" /\ rhs = Transform_new) => cur = lhs
    /\ (how = "mul" /\ lhs = Transform_new) => cur = rhs
    /\ (how = "ctor" /\ cur = Transform_new /\ Evaluated) => out = args[1]

\* C5 where it holds: for the Transforms whose entries are all finite.
IdentityIsNeutralOnFinite ==
    /\ (how = "mul" /\ rhs = Transform_new /\ FiniteMatrix(lhs)) => cur = lhs
    /\ (how = "mul" /\ lhs = Transform_new /\ FiniteMatrix(rhs)) => cur = rhs
    /\ (how = "ctor" /\ cur = Transform_new /\ Evaluated) => out = args[1]

\* C6: normalising the zero vector returns the zero vector, with no NaN or
\* infinite component.
NormOfZeroIsZero ==
    (op = "norm" /\ args[1] = Zero3) => (out = Zero3 /\ FiniteVec(out))

\* C7: new_rotate_z(theta) rotates (x, y) by theta and leaves z as it is.
RotateZIsStandard ==
    \A a \in Angles :
        (op = "eval_point" /\ cur = new_rotate_z(a)) =>
            LET p == args[1]
            IN  /\ out[1] = FSub(FMul(cos_deg(a), p[1]), FMul(sin_deg(a), p[2]))
                /\ out[2] = FAdd(FMul(sin_deg(a), p[1]), FMul(cos_deg(a), p[2]))
                /\ out[3] = p[3]

\* C8: a.cross(b) is the negation of b.cross(a) in every component, and
\* a.cross(a) is the zero vector.
CrossAntiCommutes ==
    op = "cross" =>
        /\ out = VNeg(cross(args[2], args[1]))
        /\ args[1] = args[2] => out = Zero3

\* C8 witness: (1,0,0) x (0,1,0) = (0,0,1).
CrossWitness ==
    /\ op = "cross"
    /\ args = <<V3(1, 0, 0), V3(0, 1, 0)>>
    /\ out = V3(0, 0, 1)

\* look # pos and up is not parallel to look - pos.
NonDegenerate(pos, look, up) == cross(up, sub(look, pos)) # Zero3

\* v is the unit vector in the direction of w.
UnitAlong(v, w) ==
    /\ len_squared(v) = F(1)
    /\ cross(v, w) = Zero3
    /\ dot(v, w)[1] > 0

\* C9: for non-degenerate pos, look, up the columns right, newup, dir of
\* new_look_at's matrix are mutually orthogonal unit vectors, dir is
\* normalize(look - pos), the fourth column is pos and the bottom row is
\* (0,0,0,1).
LookAtOrthonormal ==
    (op = "new_look_at" /\ NonDegenerate(args[1], args[2], args[3])) =>
        LET right == Column(cur, 1)
            newup == Column(cur, 2)
            dir == Column(cur, 3)
        IN  /\ len_squared(right) = F(1)
            /\ len_squared(newup) = F(1)
            /\ dot(right, newup) = F(0)
            /\ dot(right, dir) = F(0)
            /\ dot(newup, dir) = F(0)
            /\ UnitAlong(dir, sub(args[2], args[1]))
            /\ Column(cur, 4) = args[1]
            /\ cur[4] = AffineRow

\* C9 witness: a frame whose up is neither along nor orthogonal to dir.
LookAtWitness ==
    /\ op = "new_look_at"
    /\ args = <<V3(1, 2, 3), V3(1, 2, 5), V3(0, -3, 4)>>
    /\ Column(cur, 1) = V3(-1, 0, 0)

\* C10: every Transform built by the constructors and compositions has
\* the bottom row (0,0,0,1), and eval_point computes w = 1 for it.
BottomRowIsAffine ==
    (InHand /\ how # "inverse") =>
        /\ cur[4] = AffineRow
        /\ op = "eval_point" => eval_point_w(cur, args[1]) = F(1)

\* C10 where it holds: for the Transforms whose entries are all finite.
BottomRowIsAffineOnFinite ==
    (InHand /\ FiniteMatrix(cur)) =>
        /\ cur[4] = AffineRow
        /\ op = "eval_point" => eval_point_w(cur, args[1]) = F(1)

====
